---- MODULE Spec2Model ----
(***************************************************************************)
(* Transaction & Savepoint Manager of go-active-record                     *)
(* (src/activerecord/transactions.go).                                     *)
(*                                                                         *)
(* One physical database transaction (an sql.Tx) is shared by a tree of    *)
(* Transaction objects: the top-level one made by Begin and the nested     *)
(* ones made by BeginNested.  Every method of Transaction holds t.mu for   *)
(* its whole body, so in Spec one action is one whole method call.         *)
(* SpecConc (further down) splits Commit and Rollback into the steps two   *)
(* threads can interleave.                                                 *)
(***************************************************************************)
EXTENDS Integers, Sequences, FiniteSets, TLC

\* ---------------------------------------------------------------- bounds
MaxCalls == 4         \* method calls made on the Transactions of one tree
NumThreads == 2       \* threads that call Commit/Rollback at once (SpecConc)

\* ------------------------------------------------------------- constants
Nil == 0              \* parentTx == nil
Root == 1             \* the Transaction returned by Begin

\* every nested Transaction costs one call of BeginNested
Tx == 1..(MaxCalls + 1)
UserNames == {"a", "sp_1"}     \* names a caller passes to CreateSavepoint etc.

VARIABLES
    txs,       \* the Transaction objects
    db,        \* the shared sql.Tx: status, visible rows, live savepoints
    created,   \* per nested Transaction: what BeginNested did to create it
    nilCalls,  \* per Transaction: which of Commit/Rollback have returned nil
    cbRuns,    \* per callback: how often it has been executed (history)
    calls,     \* number of method calls made so far
    last,      \* the call that just returned: operation, receiver, result
    thr,       \* SpecConc: per thread, where it is in Commit()/Rollback()
    mu,        \* SpecConc: the holder of the top-level Transaction's t.mu
    tl,        \* SpecTransactional: where Transactional(fn) is, and its result
    table,     \* SpecCrud: the rows of the model's table
    nextID,    \* SpecCrud: the id the database gives the next inserted row
    recs,      \* SpecCrud: the records (Go structs) the caller holds
    now,       \* SpecCrud: what time.Now() returns
    live,      \* SpecCrud: ids inserted and not deleted since (history)
    res,       \* SpecCrud: the call that just returned
    crudCalls, \* SpecCrud: number of steps made so far
    models,    \* SpecScan: the slice the caller passed to FindAll / Where
    schema,    \* SpecMigrate: the versions recorded in schema_migrations
    mig,       \* SpecMigrate: the call of the migrator that returned last
    migCalls,  \* SpecMigrate: number of calls made so far
    replicas,  \* SpecResolver: len(dr.readReplicas), len(dr.writeReplicas)
    roundRobin, \* SpecResolver: DatabaseResolver.roundRobin
    gor,       \* SpecResolver: each goroutine's position in GetConnection
    picks,     \* SpecResolver: the connections returned so far, in order
    dbrCalls   \* SpecResolver: number of calls of GetConnection begun

vars == <<txs, db, created, nilCalls, cbRuns, calls, last, thr, mu, tl,
          table, nextID, recs, now, live, res, crudCalls, models,
          schema, mig, migCalls, replicas, roundRobin, gor, picks, dbrCalls>>

\* what the threads of SpecConc and the frame of Transactional add to the
\* state of the Transactions
concVars == <<thr, mu>>
tlVars == <<tl>>
txVars == <<txs, db, created, nilCalls, cbRuns, calls, last>>
crudVars == <<table, nextID, recs, now, live, res, crudCalls, models>>
migVars == <<schema, mig, migCalls>>
dbrVars == <<replicas, roundRobin, gor, picks, dbrCalls>>

Threads == 1..NumThreads
NoThread == 0

\* fmt.Sprintf("sp_%d", n)
SavepointName(n) == <<"sp_1", "sp_2", "sp_3", "sp_4", "sp_5", "sp_6">>[n]

\* &Transaction{tx, ctx, savepoints: make([]string, 0), savepointID: 0, parentTx}
NewTransaction(parent) ==
    [alive |-> TRUE, savepoints |-> <<>>, savepointID |-> 0,
     committed |-> FALSE, rolledBack |-> FALSE,
     parentTx |-> parent, callbacks |-> <<>>]

\* a slot of the heap that holds no Transaction yet
NoTransaction ==
    [alive |-> FALSE, savepoints |-> <<>>, savepointID |-> 0,
     committed |-> FALSE, rolledBack |-> FALSE,
     parentTx |-> Nil, callbacks |-> <<>>]

\* one thing a call did: a statement, a callback, a physical commit/rollback
Event(kind, name, id, ok) == [kind |-> kind, name |-> name, id |-> id, ok |-> ok]

Kinds(events) == {events[i].kind : i \in DOMAIN events}

\* -------------------------------------------- the physical transaction
\* What the database does with the statements transactions.go sends it.
\* Savepoints form a stack of (name, snapshot of the visible rows); a name
\* may occur twice, the most recent one is the one a statement refers to.

LastIndexOf(sps, name) ==
    LET hits == {i \in DOMAIN sps : sps[i].name = name}
    IN  IF hits = {} THEN 0 ELSE CHOOSE i \in hits : \A j \in hits : j <= i

LiveNames(d) == {d.sps[i].name : i \in DOMAIN d.sps}

\* "SAVEPOINT <name>"
DbSavepoint(d, name) ==
    [d EXCEPT !.sps = Append(@, [name |-> name, rows |-> d.rows])]

\* "RELEASE SAVEPOINT <name>": destroys the savepoint and every later one
DbRelease(d, name) ==
    [d EXCEPT !.sps = SubSeq(@, 1, LastIndexOf(d.sps, name) - 1)]

\* "ROLLBACK TO SAVEPOINT <name>": undoes the writes made since the
\* savepoint, destroys every later savepoint, keeps the savepoint itself
DbRollbackTo(d, name) ==
    LET i == LastIndexOf(d.sps, name)
    IN  [d EXCEPT !.rows = d.sps[i].rows, !.sps = SubSeq(@, 1, i)]

\* "INSERT ...": a row written through Transaction t becomes visible
\* (rows holds the Transactions that have a visible write)
DbInsert(d, t) == [d EXCEPT !.rows = @ \cup {t}]

\* t.tx.Exec(stmt): fails when the sql.Tx is finished (ErrTxDone), when the
\* driver reports an error (drv = FALSE), or when the savepoint is unknown.
StmtOk(d, kind, name, drv) ==
    /\ d.status = "open"
    /\ drv
    /\ kind \in {"RELEASE", "ROLLBACK TO"} => LastIndexOf(d.sps, name) # 0

StmtApply(d, kind, name) ==
    CASE kind = "SAVEPOINT"   -> DbSavepoint(d, name)
      [] kind = "RELEASE"     -> DbRelease(d, name)
      [] kind = "ROLLBACK TO" -> DbRollbackTo(d, name)

TxExec(d, kind, name, drv) ==
    IF StmtOk(d, kind, name, drv) THEN StmtApply(d, kind, name) ELSE d

\* outcomes of t.tx.Commit() / t.tx.Rollback() in the driver: success, an
\* error that leaves the sql.Tx usable (the context was already cancelled),
\* an error after the sql.Tx was marked done
CommitOutcomes == {"ok", "err", "errDone"}
RollbackOutcomes == {"ok", "errDone"}

PhysOk(d, drv) == d.status = "open" /\ drv = "ok"

\* t.tx.Commit()
TxCommit(d, drv) ==
    IF d.status # "open" THEN d
    ELSE [d EXCEPT !.status = CASE drv = "ok"  -> "committed"
                               [] drv = "err" -> "open"
                               [] OTHER       -> "aborted",
                   !.sps = IF drv = "err" THEN @ ELSE <<>>,
                   !.rows = IF drv = "errDone" THEN {} ELSE @]

\* t.tx.Rollback()
TxRollback(d, drv) ==
    IF d.status # "open" THEN d
    ELSE [d EXCEPT !.status = IF drv = "ok" THEN "rolledback" ELSE "aborted",
                   !.sps = <<>>, !.rows = {}]

\* t.tx.QueryContext: the rows a read through any Transaction of the tree sees
Query(t) == db.rows

\* ------------------------------------------------- records of the model
\* (src/activerecord/model.go)  A record is a struct that embeds BaseModel
\* (ID interface{}, CreatedAt, UpdatedAt time.Time) and has the mapped
\* fields Name string and Age int, as the models of the tests do.  A
\* time.Time is a number of clock ticks, 0 being the zero time.

\* the values an ID interface{} holds: nil, an int, an int64
NilID == [kind |-> "nil", n |-> 0]
IntID(n) == [kind |-> "int", n |-> n]
Int64ID(n) == [kind |-> "int64", n |-> n]

\* &Model{}: the zero value of the struct
ZeroRecord == [ID |-> NilID, CreatedAt |-> 0, UpdatedAt |-> 0, Name |-> "", Age |-> 0]

\* the variables of the caller that hold a record
Recs == {"e", "e2"}

\* the values the caller gives the fields of a record it makes
Names == {"Ada", "Bob"}
Ages == {30}
Past == 1             \* a time before the program started
Stamps == {0, Past}   \* CreatedAt / UpdatedAt left unset, or set by the caller
StartTime == 2        \* time.Now() at the first call

\* TransactionManager.Begin: one Active top-level Transaction on a fresh sql.Tx
Init ==
    /\ txs = [t \in Tx |-> IF t = Root THEN NewTransaction(Nil) ELSE NoTransaction]
    /\ db = [status |-> "open", rows |-> {}, sps |-> <<>>]
    /\ created = [t \in Tx |-> [savepoint |-> "", rows |-> {}]]
    /\ nilCalls = [t \in Tx |-> {}]
    /\ cbRuns = [cb \in 1..MaxCalls |-> 0]
    /\ calls = 0
    /\ last = [op |-> "Begin", t |-> Root, err |-> FALSE, events |-> <<>>]
    /\ thr = [th \in Threads |-> [pc |-> "idle", op |-> "", ret |-> "", did |-> "none"]]
    /\ mu = NoThread
    /\ tl = [phase |-> "begin", fnErr |-> FALSE, fnCommitted |-> FALSE,
             commitCalled |-> FALSE, deferred |-> "none", ret |-> ""]
    /\ table = {}
    /\ nextID = 1
    /\ recs = [r \in Recs |-> ZeroRecord]
    /\ now = StartTime
    /\ live = {}
    /\ res = [op |-> "", r |-> "", id |-> NilID, err |-> <<>>, fields |-> <<>>,
              arg |-> ZeroRecord]
    /\ crudCalls = 0
    /\ models = <<>>
    /\ schema = {}
    /\ mig = [op |-> "", list |-> <<>>, err |-> <<>>, ups |-> <<>>, downs |-> <<>>]
    /\ migCalls = 0
    /\ replicas = [ReadReplica |-> 0, WriteReplica |-> 0]
    /\ roundRobin = 0
    /\ gor = [g \in 1..NumThreads |-> [pc |-> "idle", dbType |-> "", tmp |-> 0]]
    /\ picks = <<>>
    /\ dbrCalls = 0

Call(op, t, err, events) ==
    [op |-> op, t |-> t, err |-> err, events |-> events]

\* the branch for nested transactions is never taken
IsNested_Never(t) == FALSE

\* if t.parentTx != nil
IsNested(t) == txs[t].parentTx # Nil

AllNames == UserNames \cup {SavepointName(i) : i \in 1..MaxCalls}

\* one more call, made by the one caller that owns the tree, while the
\* budget of calls lasts
Budget ==
    /\ calls < MaxCalls /\ calls' = calls + 1
    /\ UNCHANGED <<concVars, tlVars, crudVars, migVars, dbrVars>>

\* the call returned an error before doing anything
Rejected(op, t) ==
    /\ last' = Call(op, t, TRUE, <<>>)
    /\ UNCHANGED <<txs, db, created, nilCalls, cbRuns>>

\* ----------------------------------------------------------- BeginNested
\* if t.committed || t.rolledBack { return nil, error }
BeginNestedRejected(t) == txs[t].committed \/ txs[t].rolledBack

\* t.savepointID++ ; savepointName := fmt.Sprintf("sp_%d", t.savepointID)
NextSavepointID(t) == txs[t].savepointID + 1

FreeSlot == CHOOSE c \in Tx : ~txs[c].alive /\ \A d \in Tx : ~txs[d].alive => c <= d

BeginNested(t) ==
    /\ Budget
    /\ txs[t].alive
    /\ IF BeginNestedRejected(t)
       THEN Rejected("BeginNested", t)
       ELSE /\ \E drv \in BOOLEAN :
                 LET id   == NextSavepointID(t)
                     name == SavepointName(id)
                     ok   == StmtOk(db, "SAVEPOINT", name, drv)
                     c    == FreeSlot
                 IN  /\ db' = TxExec(db, "SAVEPOINT", name, drv)
                     /\ txs' = IF ok
                               THEN [txs EXCEPT ![t].savepointID = id,
                                                ![t].savepoints = Append(@, name),
                                                ![c] = NewTransaction(t)]
                               ELSE [txs EXCEPT ![t].savepointID = id]
                     /\ created' = IF ok
                                   THEN [created EXCEPT ![c] =
                                            [savepoint |-> name, rows |-> db.rows]]
                                   ELSE created
                     /\ last' = Call("BeginNested", t, ~ok,
                                     <<Event("SAVEPOINT", name, 0, ok)>>)
                     /\ UNCHANGED <<nilCalls, cbRuns>>

\* ---------------------------------------------------------------- Commit
\* Commit without the rolledBack check
CommitRejected_OnlyCommitted(t) == txs[t].committed

\* if t.committed { return error } ; if t.rolledBack { return error }
CommitRejected(t) == txs[t].committed \/ txs[t].rolledBack

\* if len(t.savepoints) > 0 { savepointName := t.savepoints[len(t.savepoints)-1] ...
\* the savepoint a nested Commit or Rollback addresses: <<>> when there is none
TopSavepoint(t) ==
    IF Len(txs[t].savepoints) > 0
    THEN <<txs[t].savepoints[Len(txs[t].savepoints)]>>
    ELSE <<>>

\* the loop over the callbacks starts after the last callback that
\* returned nil in an earlier Commit()
RunCallbacks_SkipsDone(cbs, outcome) ==
    LET todo  == {i \in DOMAIN cbs : cbRuns[cbs[i]] = 0 \/ ~outcome[i]}
        fails == {i \in todo : ~outcome[i]}
        stop  == IF fails = {} THEN Len(cbs)
                 ELSE CHOOSE i \in fails : \A j \in fails : i <= j
        run   == {i \in todo : i <= stop}
    IN  [k \in 1..Cardinality(run) |->
           LET i == CHOOSE i \in run : Cardinality({j \in run : j < i}) = k - 1
           IN  Event("callback", "", cbs[i], outcome[i])]

\* for _, callback := range t.callbacks { if err := callback(); err != nil { return } }
\* outcome[i] is what the i-th registered callback returns this time
RunCallbacks(cbs, outcome) ==
    LET fails == {i \in DOMAIN cbs : ~outcome[i]}
        stop  == IF fails = {} THEN Len(cbs)
                 ELSE CHOOSE i \in fails : \A j \in fails : i <= j
    IN  [i \in 1..stop |-> Event("callback", "", cbs[i], outcome[i])]

\* the error a callback returns is dropped
CallbacksOk_ErrorIgnored(cbev) == TRUE

\* the loop over the callbacks ended without returning an error
CallbacksOk(cbev) == \A i \in DOMAIN cbev : cbev[i].ok

\* t.tx.Commit() before the loop over the callbacks
TopLevelCommitEvents_CommitFirst(cbev, physOk) ==
    <<Event("COMMIT", "", 0, physOk)>> \o cbev

\* what a top-level Commit does, in order: the callbacks, then t.tx.Commit()
TopLevelCommitEvents(cbev, physOk) ==
    IF CallbacksOk(cbev)
    THEN Append(cbev, Event("COMMIT", "", 0, physOk))
    ELSE cbev

\* a nested Commit that runs the callbacks of its Transaction
NestedCommit_RunsCallbacks(t, drv) ==
    LET ev == RunCallbacks(txs[t].callbacks, [i \in DOMAIN txs[t].callbacks |-> TRUE])
    IN  /\ db' = db
        /\ txs' = [txs EXCEPT ![t].committed = TRUE]
        /\ nilCalls' = [nilCalls EXCEPT ![t] = @ \cup {"Commit"}]
        /\ last' = Call("Commit", t, FALSE, ev)
        /\ cbRuns' = [cb \in DOMAIN cbRuns |->
                         cbRuns[cb] + Cardinality({i \in DOMAIN ev : ev[i].id = cb})]
        /\ UNCHANGED created

NestedCommit(t, drv) ==
    LET target == TopSavepoint(t)
        ok == target = <<>> \/ StmtOk(db, "RELEASE", target[1], drv)
    IN  /\ db' = IF target = <<>> THEN db ELSE TxExec(db, "RELEASE", target[1], drv)
        /\ txs' = IF ok THEN [txs EXCEPT ![t].committed = TRUE] ELSE txs
        /\ nilCalls' = IF ok THEN [nilCalls EXCEPT ![t] = @ \cup {"Commit"}] ELSE nilCalls
        /\ last' = Call("Commit", t, ~ok,
                        IF target = <<>> THEN <<>>
                        ELSE <<Event("RELEASE", target[1], 0, ok)>>)
        /\ UNCHANGED <<created, cbRuns>>

TopLevelCommit(t, phys, outcome) ==
    LET cbev == RunCallbacks(txs[t].callbacks, outcome)
        ev   == TopLevelCommitEvents(cbev, PhysOk(db, phys))
        ok   == \A i \in DOMAIN ev : ev[i].ok
    IN  /\ db' = IF "COMMIT" \in Kinds(ev) THEN TxCommit(db, phys) ELSE db
        /\ txs' = IF ok THEN [txs EXCEPT ![t].committed = TRUE] ELSE txs
        /\ nilCalls' = IF ok THEN [nilCalls EXCEPT ![t] = @ \cup {"Commit"}] ELSE nilCalls
        /\ last' = Call("Commit", t, ~ok, ev)
        /\ cbRuns' = [cb \in DOMAIN cbRuns |->
                         cbRuns[cb] + Cardinality({i \in DOMAIN ev :
                              ev[i].kind = "callback" /\ ev[i].id = cb})]
        /\ UNCHANGED created

\* the body of Commit(), under t.mu
DoCommit(t) ==
    IF CommitRejected(t)
    THEN Rejected("Commit", t)
    ELSE IF IsNested(t)
    THEN \E drv \in BOOLEAN : NestedCommit(t, drv)
    ELSE \E phys \in CommitOutcomes, outcome \in [DOMAIN txs[t].callbacks -> BOOLEAN] :
            TopLevelCommit(t, phys, outcome)

Commit(t) ==
    /\ Budget
    /\ txs[t].alive
    /\ DoCommit(t)

\* -------------------------------------------------------------- Rollback
\* Rollback without the committed check
RollbackRejected_OnlyRolledBack(t) == txs[t].rolledBack

\* Rollback that looks at the flags of the parent as well
RollbackRejected_ParentTerminal(t) ==
    \/ txs[t].committed \/ txs[t].rolledBack
    \/ /\ txs[t].parentTx # Nil
       /\ txs[txs[t].parentTx].committed \/ txs[txs[t].parentTx].rolledBack

\* if t.committed { return error } ; if t.rolledBack { return error }
RollbackRejected(t) == txs[t].committed \/ txs[t].rolledBack

NestedRollback(t, drv) ==
    LET target == TopSavepoint(t)
        ok == target = <<>> \/ StmtOk(db, "ROLLBACK TO", target[1], drv)
    IN  /\ db' = IF target = <<>> THEN db ELSE TxExec(db, "ROLLBACK TO", target[1], drv)
        /\ txs' = IF ok THEN [txs EXCEPT ![t].rolledBack = TRUE] ELSE txs
        /\ nilCalls' = IF ok THEN [nilCalls EXCEPT ![t] = @ \cup {"Rollback"}] ELSE nilCalls
        /\ last' = Call("Rollback", t, ~ok,
                        IF target = <<>> THEN <<>>
                        ELSE <<Event("ROLLBACK TO", target[1], 0, ok)>>)
        /\ UNCHANGED <<created, cbRuns>>

\* t.rolledBack = true before the error of t.tx.Rollback() is looked at
TopLevelRollback_MarksOnError(t, phys) ==
    LET ok == PhysOk(db, phys)
    IN  /\ db' = TxRollback(db, phys)
        /\ txs' = [txs EXCEPT ![t].rolledBack = TRUE]
        /\ nilCalls' = IF ok THEN [nilCalls EXCEPT ![t] = @ \cup {"Rollback"}] ELSE nilCalls
        /\ last' = Call("Rollback", t, ~ok, <<Event("ROLLBACK", "", 0, ok)>>)
        /\ UNCHANGED <<created, cbRuns>>

TopLevelRollback(t, phys) ==
    LET ok == PhysOk(db, phys)
    IN  /\ db' = TxRollback(db, phys)
        /\ txs' = IF ok THEN [txs EXCEPT ![t].rolledBack = TRUE] ELSE txs
        /\ nilCalls' = IF ok THEN [nilCalls EXCEPT ![t] = @ \cup {"Rollback"}] ELSE nilCalls
        /\ last' = Call("Rollback", t, ~ok, <<Event("ROLLBACK", "", 0, ok)>>)
        /\ UNCHANGED <<created, cbRuns>>

\* the body of Rollback(), under t.mu
DoRollback(t) ==
    IF RollbackRejected(t)
    THEN Rejected("Rollback", t)
    ELSE IF IsNested(t)
    THEN \E drv \in BOOLEAN : NestedRollback(t, drv)
    ELSE \E phys \in RollbackOutcomes : TopLevelRollback(t, phys)

Rollback(t) ==
    /\ Budget
    /\ txs[t].alive
    /\ DoRollback(t)

\* ---------------------------------------------------- named savepoints
\* the state check without the rolledBack test
SavepointOpRejected_OnlyCommitted(t) == txs[t].committed

\* if t.committed || t.rolledBack { return error }
SavepointOpRejected(t) == txs[t].committed \/ txs[t].rolledBack

\* for _, sp := range t.savepoints { if sp == savepointName { found = true } }
Found(s, name) == \E i \in DOMAIN s : s[i] = name

FirstIndexOf(s, name) ==
    CHOOSE i \in DOMAIN s : s[i] = name /\ \A j \in DOMAIN s : s[j] = name => i <= j

\* t.savepoints[:i] instead of t.savepoints[:i+1]
TruncateAfter_DropsName(s, name) ==
    IF Found(s, name) THEN SubSeq(s, 1, FirstIndexOf(s, name) - 1) ELSE s

\* for i, sp := range t.savepoints { if sp == name { t.savepoints = t.savepoints[:i+1]; break } }
TruncateAfter(s, name) ==
    IF Found(s, name) THEN SubSeq(s, 1, FirstIndexOf(s, name)) ELSE s

\* for i, sp := range t.savepoints { if sp == name { append(s[:i], s[i+1:]...); break } }
RemoveFirst(s, name) ==
    IF Found(s, name)
    THEN SubSeq(s, 1, FirstIndexOf(s, name) - 1)
            \o SubSeq(s, FirstIndexOf(s, name) + 1, Len(s))
    ELSE s

RollbackToSavepoint(t, name) ==
    /\ Budget
    /\ txs[t].alive
    /\ IF SavepointOpRejected(t) \/ ~Found(txs[t].savepoints, name)
       THEN Rejected("RollbackToSavepoint", t)
       ELSE \E drv \in BOOLEAN :
              LET ok == StmtOk(db, "ROLLBACK TO", name, drv)
              IN  /\ db' = TxExec(db, "ROLLBACK TO", name, drv)
                  /\ txs' = IF ok
                            THEN [txs EXCEPT ![t].savepoints = TruncateAfter(@, name)]
                            ELSE txs
                  /\ last' = Call("RollbackToSavepoint", t, ~ok,
                                  <<Event("ROLLBACK TO", name, 0, ok)>>)
                  /\ UNCHANGED <<created, nilCalls, cbRuns>>

CreateSavepoint(t, name) ==
    /\ Budget
    /\ txs[t].alive
    /\ IF SavepointOpRejected(t)
       THEN Rejected("CreateSavepoint", t)
       ELSE /\ \E drv \in BOOLEAN :
                 LET ok == StmtOk(db, "SAVEPOINT", name, drv)
                 IN  /\ db' = TxExec(db, "SAVEPOINT", name, drv)
                     /\ txs' = IF ok
                               THEN [txs EXCEPT ![t].savepoints = Append(@, name)]
                               ELSE txs
                     /\ last' = Call("CreateSavepoint", t, ~ok,
                                     <<Event("SAVEPOINT", name, 0, ok)>>)
                     /\ UNCHANGED <<created, nilCalls, cbRuns>>

ReleaseSavepoint(t, name) ==
    /\ Budget
    /\ txs[t].alive
    /\ IF SavepointOpRejected(t)
       THEN Rejected("ReleaseSavepoint", t)
       ELSE \E drv \in BOOLEAN :
              LET ok == StmtOk(db, "RELEASE", name, drv)
              IN  /\ db' = TxExec(db, "RELEASE", name, drv)
                  /\ txs' = IF ok
                            THEN [txs EXCEPT ![t].savepoints = RemoveFirst(@, name)]
                            ELSE txs
                  /\ last' = Call("ReleaseSavepoint", t, ~ok,
                                  <<Event("RELEASE", name, 0, ok)>>)
                  /\ UNCHANGED <<created, nilCalls, cbRuns>>

\* ------------------------------------------------------------ AddCallback
\* t.callbacks = append(t.callbacks, callback)
\* callbacks are named by the order of their registration
Registered == UNION {{txs[t].callbacks[i] : i \in DOMAIN txs[t].callbacks} : t \in Tx}

AddCallback(t, cb) ==
    /\ Budget
    /\ txs[t].alive
    /\ cb = Cardinality(Registered) + 1
    /\ txs' = [txs EXCEPT ![t].callbacks = Append(@, cb)]
    /\ last' = Call("AddCallback", t, FALSE, <<>>)
    /\ UNCHANGED <<db, created, nilCalls, cbRuns>>

\* ------------------------------------------------------------------ Exec
\* return t.tx.ExecContext(t.ctx, query, args...): an INSERT of one new row,
\* tagged with the Transaction it was executed through
Exec(t) ==
    /\ Budget
    /\ txs[t].alive
    /\ \E drv \in BOOLEAN :
         LET ok == db.status = "open" /\ drv
         IN  /\ db' = IF ok THEN DbInsert(db, t) ELSE db
             /\ last' = Call("Exec", t, ~ok, <<Event("INSERT", "", 0, ok)>>)
             /\ UNCHANGED <<txs, created, nilCalls, cbRuns>>

Next ==
    \/ \E t \in Tx : BeginNested(t)
    \/ \E t \in Tx : Commit(t)
    \/ \E t \in Tx : Rollback(t)
    \/ \E t \in Tx, name \in AllNames : RollbackToSavepoint(t, name)
    \/ \E t \in Tx, name \in UserNames : CreateSavepoint(t, name)
    \/ \E t \in Tx, name \in AllNames : ReleaseSavepoint(t, name)
    \/ \E t \in Tx, cb \in 1..MaxCalls : AddCallback(t, cb)
    \/ \E t \in Tx : Exec(t)

Spec == Init /\ [][Next]_vars

\* ================================================================ claims

Active(t) == txs[t].alive /\ ~txs[t].committed /\ ~txs[t].rolledBack

\* the step is a call of one of ops on Transaction t
IsCall(t, ops) == calls' # calls /\ last'.t = t /\ last'.op \in ops

\* C1: once a Commit() or a Rollback() on a Transaction has returned nil,
\* every later Commit() and Rollback() on it returns an error and executes
\* nothing: no statement, no callback, no physical commit or rollback.
C1_NoSecondCommitOrRollback ==
    [][\A t \in Tx :
         (nilCalls[t] # {} /\ IsCall(t, {"Commit", "Rollback"}))
            => (last'.err /\ last'.events = <<>> /\ db' = db)]_vars

\* Rollback() after a Commit() that returned nil, rejected
C1_Witness ==
    /\ last.op = "Rollback" /\ last.err /\ last.events = <<>>
    /\ "Commit" \in nilCalls[last.t]

\* C2: committed and rolledBack are never both true, and a flag that is
\* true stays true.
C2_FlagsExclusiveAndTerminal ==
    /\ [](\A t \in Tx : ~(txs[t].committed /\ txs[t].rolledBack))
    /\ [][\A t \in Tx : /\ txs[t].committed => txs'[t].committed
                        /\ txs[t].rolledBack => txs'[t].rolledBack]_vars

\* a committed child under a rolled-back parent, after a rejected call
C2_Witness ==
    \E t \in Tx :
        /\ txs[t].committed /\ txs[t].parentTx # Nil
        /\ txs[txs[t].parentTx].rolledBack
        /\ last.err /\ last.events = <<>>

\* C3: after child := P.BeginNested() on the top-level P and a
\* child.Rollback() that returned nil, a read through P sees no write made
\* through the child and still sees what was visible at BeginNested.
C3_SavepointIsolation ==
    \A c \in Tx :
        (last.op = "Rollback" /\ last.t = c /\ ~last.err /\ txs[c].parentTx = Root)
            => /\ c \notin Query(Root)
               /\ created[c].rows \subseteq Query(Root)

\* C4: a Commit() that returns nil on a nested Transaction has executed
\* RELEASE SAVEPOINT for the savepoint BeginNested created for it, and has
\* marked the child committed.
C4_NestedCommitReleases ==
    \A c \in Tx :
        (last.op = "Commit" /\ last.t = c /\ ~last.err /\ txs[c].parentTx # Nil)
            => /\ txs[c].committed
               /\ last.events = <<Event("RELEASE", created[c].savepoint, 0, TRUE)>>

\* C5: a Commit() or Rollback() on a nested Transaction leaves the parent's
\* flags as they were, performs no physical commit or rollback, and leaves
\* the physical transaction in the status it had; a parent that was Active
\* is not rejected by its own Commit() or Rollback() afterwards.
C5_NestedLeavesParentAlone ==
    [][\A t \in Tx :
         (IsCall(t, {"Commit", "Rollback"}) /\ txs[t].parentTx # Nil)
            => LET p == txs[t].parentTx
               IN  /\ txs'[p].committed = txs[p].committed
                   /\ txs'[p].rolledBack = txs[p].rolledBack
                   /\ Kinds(last'.events) \cap {"COMMIT", "ROLLBACK"} = {}
                   /\ db'.status = db.status
                   /\ Active(p) => (~CommitRejected(p))' /\ (~RollbackRejected(p))']_vars

\* a nested Commit() returned nil under an Active parent on an open sql.Tx
C5_Witness ==
    /\ last.op = "Commit" /\ ~last.err /\ txs[last.t].parentTx # Nil
    /\ Active(txs[last.t].parentTx)
    /\ db.status = "open"

\* C6: a BeginNested that returns a child has pushed exactly one name onto
\* the receiver's stack, and no savepoint live on the physical transaction
\* had that name.
C6_NestedSavepointUnique ==
    [][\A t \in Tx :
         (IsCall(t, {"BeginNested"}) /\ ~last'.err)
            => LET name == last'.events[1].name
               IN  /\ txs'[t].savepoints = Append(txs[t].savepoints, name)
                   /\ name \notin LiveNames(db)]_vars

\* C7: a top-level Commit() that reaches the physical commit has run every
\* registered callback before it, each once, in registration order, and each
\* returned nil; a top-level Commit() that returns nil has reached it.
C7_CallbacksThenCommit ==
    (last.op = "Commit" /\ txs[last.t].parentTx = Nil)
        => LET cbs == txs[last.t].callbacks
               ev  == last.events
           IN  /\ ~last.err => "COMMIT" \in Kinds(ev)
               /\ "COMMIT" \in Kinds(ev) =>
                    /\ Len(ev) = Len(cbs) + 1
                    /\ ev[Len(ev)].kind = "COMMIT"
                    /\ \A i \in DOMAIN cbs :
                          ev[i] = Event("callback", "", cbs[i], TRUE)

\* a top-level Commit() returned nil with two callbacks registered
C7_Witness ==
    /\ last.op = "Commit" /\ ~last.err /\ txs[last.t].parentTx = Nil
    /\ Len(txs[last.t].callbacks) >= 2
    /\ db.status = "committed"

\* some callback of the call that just returned has failed
CallbackFailed(call) ==
    \E i \in DOMAIN call.events :
        call.events[i].kind = "callback" /\ ~call.events[i].ok

\* C8: when a callback fails in a top-level Commit(), Commit() returns an
\* error, the failing callback is the last thing it did (no later callback,
\* no physical commit), and neither flag is set; a Rollback() that follows
\* is not rejected: it performs the physical rollback, and returns nil and
\* marks the Transaction rolled back when the physical rollback succeeds.
C8_FailedCallbackAbortsCommit ==
    /\ []((last.op = "Commit" /\ txs[last.t].parentTx = Nil /\ CallbackFailed(last))
            => /\ last.err
               /\ ~last.events[Len(last.events)].ok
               /\ \A i \in 1..(Len(last.events) - 1) : last.events[i].ok
               /\ "COMMIT" \notin Kinds(last.events)
               /\ Active(last.t))
    /\ [][(/\ last.op = "Commit" /\ txs[last.t].parentTx = Nil /\ CallbackFailed(last)
           /\ IsCall(last.t, {"Rollback"}))
            => /\ Len(last'.events) = 1
               /\ last'.events[1].kind = "ROLLBACK"
               /\ last'.events[1].ok = (db.status = "open" /\ db'.status = "rolledback")
               /\ last'.err = ~last'.events[1].ok
               /\ txs'[last.t].rolledBack = last'.events[1].ok]_vars

\* a top-level Commit() with two callbacks registered, the first one failed
C8_Witness ==
    /\ last.op = "Commit" /\ last.err /\ txs[last.t].parentTx = Nil
    /\ Len(txs[last.t].callbacks) >= 2
    /\ Len(last.events) = 1 /\ CallbackFailed(last)

\* C10: a RollbackToSavepoint(name) that returns nil leaves the tracked
\* stack equal to its previous prefix that ends with the first name: what
\* was pushed after it is gone, name and what was pushed before it stay.
C10_RollbackToSavepointTruncates ==
    [][\A t \in Tx :
         (IsCall(t, {"RollbackToSavepoint"}) /\ ~last'.err)
            => LET name == last'.events[1].name
                   old  == txs[t].savepoints
               IN  \E i \in DOMAIN old :
                      /\ old[i] = name
                      /\ \A j \in 1..(i - 1) : old[j] # name
                      /\ txs'[t].savepoints = SubSeq(old, 1, i)]_vars

\* two BeginNested on the top-level Transaction pushed sp_1 and sp_2, then
\* RollbackToSavepoint("sp_1") returned nil and sp_2 is gone
C10_Witness ==
    /\ last = Call("RollbackToSavepoint", Root, FALSE,
                   <<Event("ROLLBACK TO", "sp_1", 0, TRUE)>>)
    /\ calls = 3
    /\ txs[2].alive /\ txs[3].alive /\ txs[3].parentTx = Root
    /\ txs[Root].savepoints = <<"sp_1">>

SavepointOps == {"BeginNested", "CreateSavepoint", "ReleaseSavepoint",
                 "RollbackToSavepoint"}

\* C11: BeginNested, CreateSavepoint, ReleaseSavepoint and
\* RollbackToSavepoint on a committed or rolled-back Transaction return an
\* error, execute no statement and change no Transaction; a
\* RollbackToSavepoint that executes a statement was given a name of the
\* tracked stack, and one that executes none (untracked name) returns an
\* error and changes nothing either.
C11_TerminalSavepointOpsRejected ==
    [][\A t \in Tx :
         IsCall(t, SavepointOps)
            => /\ (txs[t].committed \/ txs[t].rolledBack)
                     => (last'.err /\ last'.events = <<>> /\ txs' = txs /\ db' = db)
               /\ (last'.op = "RollbackToSavepoint" /\ last'.events # <<>>)
                     => \E i \in DOMAIN txs[t].savepoints :
                           txs[t].savepoints[i] = last'.events[1].name
               /\ last'.events = <<>>
                     => (last'.err /\ txs' = txs /\ db' = db)]_vars

\* CreateSavepoint on a rolled-back Transaction that tracks a savepoint,
\* rejected
C11_Witness ==
    /\ last.op = "CreateSavepoint" /\ last.err /\ last.events = <<>>
    /\ txs[last.t].rolledBack
    /\ Len(txs[last.t].savepoints) > 0

\* C12: the savepoint stack, the savepoint counter and the pending
\* callbacks of a Transaction change only while it is Active: no call,
\* AddCallback included, changes them once it is committed or rolled back.
C12_TrackedStateOnlyWhileActive ==
    [][\A t \in Tx :
         (txs[t].alive /\ (txs[t].committed \/ txs[t].rolledBack))
            => /\ txs'[t].savepoints = txs[t].savepoints
               /\ txs'[t].savepointID = txs[t].savepointID
               /\ txs'[t].callbacks = txs[t].callbacks]_vars

Operations == SavepointOps \cup {"Commit", "Rollback", "AddCallback", "Exec"}

\* C13: a call on an Active Transaction that returns an error (a statement,
\* a savepoint operation, a callback, the physical commit or rollback
\* failed) leaves it Active: neither flag is set; and a Rollback() that
\* follows a failed call is not rejected by the state check.
C13_FailedOperationLeavesActive ==
    /\ [][\A t \in Tx :
            (IsCall(t, Operations) /\ Active(t) /\ last'.err)
               => (~txs'[t].committed /\ ~txs'[t].rolledBack)]_vars
    /\ [][\A t \in Tx :
            (/\ last.t = t /\ last.err /\ last.events # <<>> /\ Active(t)
             /\ IsCall(t, {"Rollback"}))
               => ~(last'.err /\ last'.events = <<>>)]_vars

\* a top-level Commit() whose physical commit failed with the sql.Tx still
\* open (the context was cancelled), the Transaction still Active
C13_Witness ==
    /\ last.op = "Commit" /\ last.err /\ txs[last.t].parentTx = Nil
    /\ last.events # <<>>
    /\ last.events[Len(last.events)] = Event("COMMIT", "", 0, FALSE)
    /\ Active(last.t) /\ db.status = "open"

\* ============================================================== SpecConc
\* NumThreads threads each call Commit() or Rollback() once on the same
\* Active top-level Transaction; a step is what one thread does between
\* two points where another thread can run.

\* Lock() that does not wait for the holder
MutexFree_NoExclusion == TRUE

\* t.mu.Lock() returns
MutexFree == mu = NoThread

\* thread th enters Commit() or Rollback()
Enter(th, op) ==
    /\ thr[th].pc = "idle"
    /\ thr' = [thr EXCEPT ![th].pc = "lock", ![th].op = op]
    /\ UNCHANGED <<txs, db, created, nilCalls, cbRuns, calls, last, mu, tlVars, crudVars, migVars, dbrVars>>

\* t.mu.Lock(); defer t.mu.Unlock()
Lock(th) ==
    /\ thr[th].pc = "lock"
    /\ MutexFree
    /\ mu' = th
    /\ thr' = [thr EXCEPT ![th].pc = "check"]
    /\ UNCHANGED <<txs, db, created, nilCalls, cbRuns, calls, last, tlVars, crudVars, migVars, dbrVars>>

\* if t.committed { return error } ; if t.rolledBack { return error }
CheckState(th) ==
    /\ thr[th].pc = "check"
    /\ LET rejected == IF thr[th].op = "Commit" THEN CommitRejected(Root)
                                                  ELSE RollbackRejected(Root)
       IN  thr' = IF rejected
                  THEN [thr EXCEPT ![th].pc = "unlock", ![th].ret = "stateErr"]
                  ELSE [thr EXCEPT ![th].pc = "phys"]
    /\ UNCHANGED <<txs, db, created, nilCalls, cbRuns, calls, last, mu, tlVars, crudVars, migVars, dbrVars>>

\* if err := t.tx.Commit(); err != nil { return error }   (resp. t.tx.Rollback())
Physical(th) ==
    /\ thr[th].pc = "phys"
    /\ \E phys \in CommitOutcomes :
         /\ thr[th].op = "Rollback" => phys \in RollbackOutcomes
         /\ db' = IF thr[th].op = "Commit" THEN TxCommit(db, phys) ELSE TxRollback(db, phys)
         /\ thr' = IF PhysOk(db, phys)
                   THEN [thr EXCEPT ![th].pc = "mark", ![th].did = "ok"]
                   ELSE [thr EXCEPT ![th].pc = "unlock", ![th].ret = "physErr",
                                    ![th].did = IF db.status = "open" THEN "driverErr"
                                                ELSE "txDone"]
    /\ UNCHANGED <<txs, created, nilCalls, cbRuns, calls, last, mu, tlVars, crudVars, migVars, dbrVars>>

\* t.committed = true ; return nil      (resp. t.rolledBack = true)
Mark(th) ==
    /\ thr[th].pc = "mark"
    /\ txs' = IF thr[th].op = "Commit" THEN [txs EXCEPT ![Root].committed = TRUE]
                                       ELSE [txs EXCEPT ![Root].rolledBack = TRUE]
    /\ thr' = [thr EXCEPT ![th].pc = "unlock", ![th].ret = "nil"]
    /\ UNCHANGED <<db, created, nilCalls, cbRuns, calls, last, mu, tlVars, crudVars, migVars, dbrVars>>

\* the deferred t.mu.Unlock()
Unlock(th) ==
    /\ thr[th].pc = "unlock"
    /\ mu' = IF mu = th THEN NoThread ELSE mu
    /\ thr' = [thr EXCEPT ![th].pc = "done"]
    /\ UNCHANGED <<txs, db, created, nilCalls, cbRuns, calls, last, tlVars, crudVars, migVars, dbrVars>>

NextConc ==
    \/ \E th \in Threads, op \in {"Commit", "Rollback"} : Enter(th, op)
    \/ \E th \in Threads : Lock(th)
    \/ \E th \in Threads : CheckState(th)
    \/ \E th \in Threads : Physical(th)
    \/ \E th \in Threads : Mark(th)
    \/ \E th \in Threads : Unlock(th)

SpecConc == Init /\ [][NextConc]_vars

AllReturned == \A th \in Threads : thr[th].pc = "done"

\* C9: when the threads have all returned from their Commit()/Rollback() on
\* the one Active Transaction and the driver has failed no physical
\* operation, exactly one call has returned nil, having performed its
\* physical operation, and every other call has returned the state error
\* without calling t.tx.Commit() or t.tx.Rollback(); at no time have two
\* calls performed a physical operation.
C9_OneWinner ==
    /\ (AllReturned /\ \A th \in Threads : thr[th].did # "driverErr")
          => \E w \in Threads :
                /\ thr[w].ret = "nil" /\ thr[w].did = "ok"
                /\ \A th \in Threads \ {w} :
                      thr[th].ret = "stateErr" /\ thr[th].did = "none"
    /\ (\A th \in Threads : thr[th].did # "driverErr")
          => Cardinality({th \in Threads : thr[th].did # "none"}) <= 1

\* one thread committed, another one asked for Rollback and lost
C9_Witness ==
    /\ AllReturned
    /\ \E w, l \in Threads :
          /\ thr[w].op = "Commit" /\ thr[w].ret = "nil"
          /\ thr[l].op = "Rollback" /\ thr[l].ret = "stateErr"
    /\ db.status = "committed" /\ txs[Root].committed /\ ~txs[Root].rolledBack

\* ===================================================== SpecTransactional
\* Transactional(fn) / TransactionalWithContext(ctx, fn): Begin, the calls fn
\* makes on the Transaction it is handed (and on the nested ones it begins),
\* fn's return, Commit() when fn returned nil, the deferred Rollback().

MaxFnCalls == 3       \* method calls fn makes before it returns

\* tx, err := GetConnection().Begin() ; transaction := &Transaction{...}
TransactionalBegin ==
    /\ tl.phase = "begin"
    /\ tl' = [tl EXCEPT !.phase = "fn"]
    /\ UNCHANGED <<txs, db, created, nilCalls, cbRuns, calls, last, concVars, crudVars, migVars, dbrVars>>

\* fn(transaction) calls a method of a Transaction of the tree
FnCall ==
    /\ tl.phase = "fn"
    /\ calls < MaxFnCalls
    /\ Next

\* if err := fn(transaction); err != nil { return err }
\* fnCommitted: a Commit() fn made on the Transaction has returned nil
FnReturn(err) ==
    /\ tl.phase = "fn"
    /\ tl' = [tl EXCEPT !.phase = IF err THEN "defer" ELSE "commit",
                        !.fnErr = err,
                        !.fnCommitted = ("Commit" \in nilCalls[Root]),
                        !.ret = IF err THEN "fnErr" ELSE ""]
    /\ UNCHANGED <<txs, db, created, nilCalls, cbRuns, calls, last, concVars, crudVars, migVars, dbrVars>>

\* return transaction.Commit()
TransactionalCommit ==
    /\ tl.phase = "commit"
    /\ DoCommit(Root)
    /\ tl' = [tl EXCEPT !.phase = "defer",
                        !.commitCalled = TRUE,
                        !.ret = IF last'.err THEN "commitErr" ELSE "nil"]
    /\ UNCHANGED <<calls, concVars, crudVars, migVars, dbrVars>>

\* the deferred function never calls Rollback()
DeferredRollbackNeeded_Never == FALSE

\* if !transaction.IsCommitted() && !transaction.IsRolledBack()
DeferredRollbackNeeded == ~txs[Root].committed /\ ~txs[Root].rolledBack

\* defer func() { if ... { transaction.Rollback() } }(): the error of
\* Rollback() is dropped
TransactionalDefer ==
    /\ tl.phase = "defer"
    /\ IF DeferredRollbackNeeded
       THEN /\ DoRollback(Root)
            /\ tl' = [tl EXCEPT !.phase = "returned",
                                !.deferred = IF last'.err THEN "failed" ELSE "ok"]
       ELSE /\ tl' = [tl EXCEPT !.phase = "returned"]
            /\ UNCHANGED <<txs, db, created, nilCalls, cbRuns, last>>
    /\ UNCHANGED <<calls, concVars, crudVars, migVars, dbrVars>>

NextTransactional ==
    \/ TransactionalBegin
    \/ FnCall
    \/ \E err \in BOOLEAN : FnReturn(err)
    \/ TransactionalCommit
    \/ TransactionalDefer

SpecTransactional == Init /\ [][NextTransactional]_vars

\* C14, as stated: when Transactional(fn) has returned, the transaction is
\* physically committed if and only if fn returned nil and Commit() returned
\* nil; when fn returned an error, that error is the result, the transaction
\* is not committed and it is rolled back; and the Transaction is committed
\* or rolled back, never Active.
C14_TransactionalAlwaysTerminal ==
    tl.phase = "returned"
        => /\ (db.status = "committed") <=> (~tl.fnErr /\ tl.ret = "nil")
           /\ tl.fnErr => /\ tl.ret = "fnErr"
                          /\ db.status # "committed"
                          /\ txs[Root].rolledBack
           /\ txs[Root].committed \/ txs[Root].rolledBack

\* C14, amended: when Transactional(fn) has returned,
\*  - it returned nil only if fn returned nil, and then the transaction is
\*    physically committed and the Transaction is committed;
\*  - when fn returned an error, that error is the result and Transactional
\*    has called no Commit();
\*  - unless a Commit() made by fn itself had returned nil, the transaction is
\*    physically committed if and only if Transactional returned nil;
\*  - the physical transaction is finished (committed, rolled back, or
\*    aborted by a failed commit or rollback), never open;
\*  - the Transaction is committed or rolled back unless the deferred
\*    Rollback() failed; a deferred Rollback() that returned nil has rolled
\*    the physical transaction back.
C14_TransactionalOutcome ==
    tl.phase = "returned"
        => /\ tl.ret = "nil"
                => (~tl.fnErr /\ db.status = "committed" /\ txs[Root].committed)
           /\ tl.fnErr => (tl.ret = "fnErr" /\ ~tl.commitCalled)
           /\ ~tl.fnCommitted => ((db.status = "committed") <=> (tl.ret = "nil"))
           /\ db.status # "open"
           /\ (txs[Root].committed \/ txs[Root].rolledBack) \/ tl.deferred = "failed"
           /\ tl.deferred = "ok"
                => (txs[Root].rolledBack /\ db.status = "rolledback")

\* fn made calls on the Transaction and returned an error; the deferred
\* Rollback() rolled the transaction back
C14_Witness ==
    /\ tl.phase = "returned" /\ tl.fnErr /\ tl.ret = "fnErr"
    /\ calls = MaxFnCalls
    /\ tl.deferred = "ok" /\ txs[Root].rolledBack /\ db.status = "rolledback"

\* ============================================================== SpecCrud
\* Create, Find, Update and Delete of src/activerecord/model.go on one
\* table, called by one caller that holds the records of Recs.  The table
\* starts empty and gets its rows through Create only.

MaxCrudCalls == 4     \* steps of the caller: records made and calls

\* the mapped columns, in the order of the struct's fields
Columns == <<"id", "created_at", "updated_at", "name", "age">>

Has(fields, c) == \E i \in DOMAIN fields : fields[i] = c

\* what the driver stores for a time.Time and hands back to a Scan into a
\* string: its RFC3339 text; a column the INSERT left out is NULL
FormatTime(t) == [layout |-> "RFC3339", t |-> t]
NullTime == [layout |-> "NULL", t |-> 0]

\* t, _ := time.Parse(time.RFC3339, s) ; if t.IsZero() { t, _ =
\* time.Parse("2006-01-02 15:04:05", s) }: the zero time when neither fits
ParseTime(str) == IF str.layout \in {"RFC3339", "DateTime"} THEN str.t ELSE 0

\* case int64: m.ID = int(v) ; default: m.ID = id
SetID(rec, id) ==
    [rec EXCEPT !.ID = IF id.kind = "int64" THEN IntID(id.n) ELSE id]

\* field.Set(reflect.ValueOf(now)) for CreatedAt and for UpdatedAt
SetTimestampsDeep(rec, t) == [rec EXCEPT !.CreatedAt = t, !.UpdatedAt = t]

\* the id column left out whatever excludeID is
Skipped_IDAlways(rec, excludeID, c) ==
    \/ c = "id"
    \/ c = "created_at" /\ rec.CreatedAt = 0
    \/ c = "updated_at" /\ rec.UpdatedAt = 0

\* the column is left out: db tag "id" with excludeID, or a created_at /
\* updated_at whose field holds the zero time
Skipped(rec, excludeID, c) ==
    \/ excludeID /\ c = "id"
    \/ c = "created_at" /\ rec.CreatedAt = 0
    \/ c = "updated_at" /\ rec.UpdatedAt = 0

\* getFieldsAndValues(model, excludeID): the columns it lists
GetFieldsAndValues(rec, excludeID) ==
    SelectSeq(Columns, LAMBDA c : ~Skipped(rec, excludeID, c))

\* WHERE id = ?
Matching(tbl, id) == {row \in tbl : id.kind # "nil" /\ row.id = id.n}

\* the name column is never written
RowValues_NameNotWritten(old, fields, rec) ==
    [id         |-> old.id,
     created_at |-> IF Has(fields, "created_at") THEN FormatTime(rec.CreatedAt)
                    ELSE old.created_at,
     updated_at |-> IF Has(fields, "updated_at") THEN FormatTime(rec.UpdatedAt)
                    ELSE old.updated_at,
     name       |-> old.name,
     age        |-> IF Has(fields, "age") THEN rec.Age ELSE old.age,
     nulls      |-> old.nulls \ {c \in {"age"} : Has(fields, c)}]

\* the row an INSERT or an UPDATE of the listed columns writes; nulls holds
\* the name and age columns that are NULL (a NULL time is NullTime)
RowValues(old, fields, rec) ==
    [id         |-> old.id,
     created_at |-> IF Has(fields, "created_at") THEN FormatTime(rec.CreatedAt)
                    ELSE old.created_at,
     updated_at |-> IF Has(fields, "updated_at") THEN FormatTime(rec.UpdatedAt)
                    ELSE old.updated_at,
     name       |-> IF Has(fields, "name") THEN rec.Name ELSE old.name,
     age        |-> IF Has(fields, "age") THEN rec.Age ELSE old.age,
     nulls      |-> old.nulls \ {c \in {"name", "age"} : Has(fields, c)}]

\* "INSERT INTO t (fields) VALUES (?...)" giving the new row the id n
SqlInsert(tbl, n, fields, rec) ==
    tbl \cup {RowValues([id |-> n, created_at |-> NullTime, updated_at |-> NullTime,
                         name |-> "", age |-> 0, nulls |-> {"name", "age"}],
                        fields, rec)}

\* an UPDATE without the WHERE clause
SqlUpdate_NoWhere(tbl, id, fields, rec) ==
    {RowValues(row, fields, rec) : row \in tbl}

\* "UPDATE t SET field = ?, ... WHERE id = ?"
SqlUpdate(tbl, id, fields, rec) ==
    {IF row \in Matching(tbl, id) THEN RowValues(row, fields, rec) ELSE row :
        row \in tbl}

\* a DELETE that matches no row
SqlDelete_KeepsRows(tbl, id) == tbl

\* "DELETE FROM t WHERE id = ?"
SqlDelete(tbl, id) == tbl \ Matching(tbl, id)

NoError == <<>>
\* fmt.Errorf("<msg>: %w", err)
Wrap(msg, err) == <<msg>> \o err
\* errors.Is(err, sql.ErrNoRows)
IsNotFound(err) == err # <<>> /\ err[Len(err)] = "sql.ErrNoRows"
IsDriverError(err) == err # <<>> /\ err[Len(err)] = "driver"

\* a query without rows reported as a conversion error
ScanError_NoRowsAsConvert(rows, fields, drv) ==
    IF ~drv THEN <<"driver">>
    ELSE IF rows = {} THEN <<"convert">>
    ELSE NoError

\* the column of the row is NULL
NullColumn(row, c) ==
    \/ c = "created_at" /\ row.created_at = NullTime
    \/ c = "updated_at" /\ row.updated_at = NullTime
    \/ c \in row.nulls

\* the first listed column that is NULL and is scanned into a string (the
\* tmp of a time field), a *string or an *int; 0 when there is none
FirstNull(row, fields) ==
    LET hits == {i \in DOMAIN fields : NullColumn(row, fields[i])}
    IN  IF hits = {} THEN 0 ELSE CHOOSE i \in hits : \A j \in hits : i <= j

\* err = r.Scan(scanArgs...): the driver's error, sql.ErrNoRows when the
\* query gave no row, the conversion error of a NULL scanned into a string
\* or an int ("converting NULL to string is unsupported")
ScanError(rows, fields, drv) ==
    IF ~drv THEN <<"driver">>
    ELSE IF rows = {} THEN <<"sql.ErrNoRows">>
    ELSE IF \E row \in rows : FirstNull(row, fields) # 0
    THEN <<"convert">>
    ELSE NoError

\* what the Scan and the loop over the time fields store in the record:
\* the id as the driver's int64, a time only when its text is not empty
Decode(rec, row, fields) ==
    [ID        |-> IF Has(fields, "id") THEN Int64ID(row.id) ELSE rec.ID,
     CreatedAt |-> IF Has(fields, "created_at") /\ row.created_at.layout # "empty"
                   THEN ParseTime(row.created_at) ELSE rec.CreatedAt,
     UpdatedAt |-> IF Has(fields, "updated_at") /\ row.updated_at.layout # "empty"
                   THEN ParseTime(row.updated_at) ELSE rec.UpdatedAt,
     Name      |-> IF Has(fields, "name") THEN row.name ELSE rec.Name,
     Age       |-> IF Has(fields, "age") THEN row.age ELSE rec.Age]

\* what a Scan that fails at the k-th column has stored before: the
\* columns before it whose destination is the field itself (a time goes to
\* its tmp string and is lost)
DecodeBefore(rec, row, fields, k) ==
    Decode(rec, row,
           SelectSeq(SubSeq(fields, 1, k - 1),
                     LAMBDA c : c \notin {"created_at", "updated_at"}))

\* scanRow(row, model, fields)
ScanRow(rec, rows, fields, drv) ==
    LET err == ScanError(rows, fields, drv)
    IN  IF err = NoError
        THEN [rec |-> Decode(rec, CHOOSE row \in rows : TRUE, fields), err |-> NoError]
        ELSE IF err = <<"convert">> /\ rows # {}
        THEN LET row == CHOOSE row \in rows : TRUE
             IN  [rec |-> DecodeBefore(rec, row, fields, FirstNull(row, fields)),
                  err |-> Wrap("scan error", err)]
        ELSE [rec |-> rec, err |-> Wrap("scan error", err)]

\* Find(model, id): fields, _ := getFieldsAndValues(model, false) ; SELECT
\* fields WHERE id = ? ; scanRow
FindRecord(rec, id, tbl, drv) ==
    LET fields == GetFieldsAndValues(rec, FALSE)
        out    == ScanRow(rec, Matching(tbl, id), fields, drv)
    IN  [rec |-> out.rec, err |-> out.err, fields |-> fields]

\* one more step of the caller
CrudBudget ==
    /\ crudCalls < MaxCrudCalls /\ crudCalls' = crudCalls + 1
    /\ UNCHANGED <<txVars, concVars, tlVars, models, migVars, dbrVars>>

\* the caller stores a new record in one of its variables:
\* r = &Model{Name: name, Age: age, CreatedAt: createdAt, UpdatedAt: updatedAt}
NewRecord(r, name, age, createdAt, updatedAt) ==
    /\ CrudBudget
    /\ recs' = [recs EXCEPT ![r] = [ID |-> NilID, CreatedAt |-> createdAt,
                                    UpdatedAt |-> updatedAt,
                                    Name |-> name, Age |-> age]]
    /\ res' = [op |-> "new", r |-> r, id |-> NilID, err |-> NoError,
               fields |-> <<>>, arg |-> recs[r]]
    /\ UNCHANGED <<table, nextID, now, live>>

\* the caller changes a mapped field of a record it holds: r.Name = name
SetName(r, name) ==
    /\ CrudBudget
    /\ recs[r].Name # name
    /\ recs' = [recs EXCEPT ![r].Name = name]
    /\ res' = [op |-> "set", r |-> r, id |-> recs[r].ID, err |-> NoError,
               fields |-> <<>>, arg |-> recs[r]]
    /\ UNCHANGED <<table, nextID, now, live>>

CreateOutcomes == {"ok", "insertErr", "reloadErr"}

\* Create(model)
Create(r) ==
    /\ CrudBudget
    /\ \E drv \in CreateOutcomes :
         LET stamped  == SetTimestampsDeep(recs[r], now)
             fields   == GetFieldsAndValues(stamped, TRUE)
             inserted == SqlInsert(table, nextID, fields, stamped)
             withID   == SetID(stamped, Int64ID(nextID))
             reload   == FindRecord(withID, withID.ID, inserted, drv = "ok")
         IN  /\ now' = now + 1
             /\ IF drv = "insertErr"
                THEN /\ recs' = [recs EXCEPT ![r] = stamped]
                     /\ res' = [op |-> "Create", r |-> r, id |-> NilID,
                                err |-> Wrap("failed to create record", <<"driver">>),
                                fields |-> fields, arg |-> recs[r]]
                     /\ UNCHANGED <<table, nextID, live>>
                ELSE /\ table' = inserted
                     /\ nextID' = nextID + 1
                     /\ live' = live \cup {nextID}
                     /\ recs' = [recs EXCEPT ![r] = reload.rec]
                     /\ res' = [op |-> "Create", r |-> r, id |-> withID.ID,
                                err |-> IF reload.err = NoError THEN NoError
                                        ELSE Wrap("failed to reload record after insert",
                                                  reload.err),
                                fields |-> fields, arg |-> recs[r]]

\* Find(recs[r], id), the id being the one a record of the caller holds
Find(r, src) ==
    /\ CrudBudget
    /\ \E drv \in BOOLEAN :
         LET out == FindRecord(recs[r], recs[src].ID, table, drv)
         IN  /\ recs' = [recs EXCEPT ![r] = out.rec]
             /\ res' = [op |-> "Find", r |-> r, id |-> recs[src].ID, err |-> out.err,
                        fields |-> out.fields, arg |-> recs[r]]
    /\ UNCHANGED <<table, nextID, now, live>>

\* Update(model)
Update(r) ==
    /\ CrudBudget
    /\ \E drv \in BOOLEAN :
         LET stamped == [recs[r] EXCEPT !.UpdatedAt = now]
             fields  == GetFieldsAndValues(stamped, TRUE)
         IN  /\ now' = now + 1
             /\ recs' = [recs EXCEPT ![r] = stamped]
             /\ table' = IF drv THEN SqlUpdate(table, stamped.ID, fields, stamped)
                         ELSE table
             /\ res' = [op |-> "Update", r |-> r, id |-> stamped.ID,
                        err |-> IF drv THEN NoError
                                ELSE Wrap("failed to update record", <<"driver">>),
                        fields |-> fields, arg |-> recs[r]]
    /\ UNCHANGED <<nextID, live>>

\* Delete(model)
Delete(r) ==
    /\ CrudBudget
    /\ \E drv \in BOOLEAN :
         /\ table' = IF drv THEN SqlDelete(table, recs[r].ID) ELSE table
         /\ live' = IF drv /\ recs[r].ID.kind # "nil" THEN live \ {recs[r].ID.n} ELSE live
         /\ res' = [op |-> "Delete", r |-> r, id |-> recs[r].ID,
                    err |-> IF drv THEN NoError
                            ELSE Wrap("failed to delete record", <<"driver">>),
                    fields |-> <<>>, arg |-> recs[r]]
    /\ UNCHANGED <<nextID, recs, now>>

NextCrud ==
    \/ \E r \in Recs, name \in Names, age \in Ages, c \in Stamps, u \in Stamps :
          NewRecord(r, name, age, c, u)
    \/ \E r \in Recs, name \in Names : SetName(r, name)
    \/ \E r \in Recs : Create(r)
    \/ \E r \in Recs, src \in Recs : Find(r, src)
    \/ \E r \in Recs : Update(r)
    \/ \E r \in Recs : Delete(r)

SpecCrud == Init /\ [][NextCrud]_vars

\* ============================================================== SpecScan
\* Decoding of rows that Create did not write: the table is filled by
\* another program (as src/init.sql does), with columns that are NULL or
\* hold a time in another form; the caller reads with Find, FindAll, Where.

MaxScanCalls == 3     \* steps: rows inserted, records made, reads

\* a row as another program inserts it: complete
GoodRow(n) ==
    [id |-> n, created_at |-> FormatTime(Past), updated_at |-> FormatTime(Past),
     name |-> "Ada", age |-> 30, nulls |-> {}]

\* the forms the text of a time column takes: RFC 3339, "2006-01-02
\* 15:04:05", text that is no time, the empty string; or NULL
TimeTexts ==
    {FormatTime(Past), [layout |-> "DateTime", t |-> Past],
     [layout |-> "other", t |-> Past], [layout |-> "empty", t |-> 0], NullTime}

\* the rows another program inserts: complete but for one column
ExternalRows(n) ==
    {[GoodRow(n) EXCEPT !.created_at = text] : text \in TimeTexts}
      \cup {[GoodRow(n) EXCEPT !.name = "", !.nulls = {"name"}],
            [GoodRow(n) EXCEPT !.age = 0, !.nulls = {"age"}]}

\* one more step, the slice of the last FindAll / Where left to the action
ScanBudget ==
    /\ crudCalls < MaxScanCalls /\ crudCalls' = crudCalls + 1
    /\ UNCHANGED <<txVars, concVars, tlVars, migVars, dbrVars>>

\* INSERT INTO t (...) VALUES (...) by another program
ExternalInsert(row) ==
    /\ ScanBudget
    /\ row.id = nextID
    /\ table' = table \cup {row}
    /\ nextID' = nextID + 1
    /\ live' = live \cup {nextID}
    /\ res' = [op |-> "insert", r |-> "", id |-> IntID(nextID), err |-> NoError,
               fields |-> <<>>, arg |-> ZeroRecord]
    /\ UNCHANGED <<recs, now, models>>

\* the caller makes a record, or calls Find with the id some record holds
ScanCall ==
    /\ crudCalls < MaxScanCalls
    /\ \/ \E r \in Recs, name \in Names, age \in Ages, c \in Stamps, u \in Stamps :
             NewRecord(r, name, age, c, u)
       \/ \E r \in Recs, src \in Recs : Find(r, src)

\* Find(recs[r], n) with a literal id
FindByID(r, n) ==
    /\ ScanBudget
    /\ \E drv \in BOOLEAN :
         LET out == FindRecord(recs[r], IntID(n), table, drv)
         IN  /\ recs' = [recs EXCEPT ![r] = out.rec]
             /\ res' = [op |-> "Find", r |-> r, id |-> IntID(n), err |-> out.err,
                        fields |-> out.fields, arg |-> recs[r]]
    /\ UNCHANGED <<table, nextID, now, live, models>>

\* the rows of a query without ORDER BY, in the order of their ids
RowsInOrder(rows) ==
    [i \in 1..Cardinality(rows) |->
        CHOOSE row \in rows : Cardinality({o \in rows : o.id < row.id}) = i - 1]

\* for rows.Next() { instance := reflect.New(elementType) ; if err :=
\* scanRow(rows, instance, fields); err != nil { return err } ;
\* slice.Set(reflect.Append(slice, instance)) } ; return rows.Err()
\* delivered: the rows the driver delivers before rows.Next() is false
\* (all of them unless rowsErr)
Collect(slice, rows, fields, delivered, rowsErr) ==
    LET scan(i) == ScanRow(ZeroRecord, {rows[i]}, fields, TRUE)
        bad     == {i \in 1..delivered : scan(i).err # NoError}
        k       == IF bad = {} THEN delivered + 1
                   ELSE CHOOSE i \in bad : \A j \in bad : i <= j
    IN  [slice |-> slice \o [i \in 1..(k - 1) |-> scan(i).rec],
         err   |-> IF bad # {} THEN scan(k).err
                   ELSE IF rowsErr THEN <<"driver">> ELSE NoError]

QueryOutcomes == {"ok", "queryErr", "rowsErr"}

\* what FindAll and Where do with the rows of their query, the caller
\* having passed the address of a new, empty slice
ReadAll(op, rows) ==
    \E drv \in QueryOutcomes, n \in 0..Len(rows) :
       LET fields == GetFieldsAndValues(ZeroRecord, FALSE)
           out    == Collect(<<>>, rows, fields, n, drv = "rowsErr")
       IN  /\ drv # "rowsErr" => n = Len(rows)
           /\ models' = IF drv = "queryErr" THEN <<>> ELSE out.slice
           /\ res' = [op |-> op, r |-> "", id |-> NilID,
                      err |-> IF drv = "queryErr"
                              THEN Wrap("failed to execute query", <<"driver">>)
                              ELSE out.err,
                      fields |-> fields, arg |-> ZeroRecord]

\* FindAll(&models)
FindAll ==
    /\ ScanBudget
    /\ ReadAll("FindAll", RowsInOrder(table))
    /\ UNCHANGED <<table, nextID, recs, now, live>>

\* Where(&models, "age < ?", limit)
Where(limit) ==
    /\ ScanBudget
    /\ ReadAll("Where", RowsInOrder({row \in table :
                                        "age" \notin row.nulls /\ row.age < limit}))
    /\ UNCHANGED <<table, nextID, recs, now, live>>

AgeLimits == {31}     \* the argument of Where("age < ?", ...)

NextScan ==
    \/ \E row \in ExternalRows(nextID) : ExternalInsert(row)
    \/ ScanCall
    \/ \E r \in Recs, n \in 1..MaxScanCalls : FindByID(r, n)
    \/ FindAll
    \/ \E limit \in AgeLimits : Where(limit)

SpecScan == Init /\ [][NextScan]_vars

\* the step is a call of op (or the making of a record, op = "new")
IsCrud(op) == crudCalls' # crudCalls /\ res'.op = op

\* the table holds a row with this id
RowExists(tbl, id) == \E row \in tbl : id.kind # "nil" /\ row.id = id.n

\* C15: a Find on a primary key that no row has returns a non-nil error
\* and leaves the record as it was; unless the driver failed the query, the
\* error is sql.ErrNoRows wrapped (errors.Is finds it), and Find returns
\* that error in no other case, so it is told apart from the errors of the
\* driver and of the decoding.
C15_FindMissingIsNotFound ==
    [][IsCrud("Find")
         => /\ ~RowExists(table, res'.id)
                 => /\ res'.err # NoError
                    /\ IsNotFound(res'.err) \/ IsDriverError(res'.err)
                    /\ recs' = recs
            /\ IsNotFound(res'.err) => ~RowExists(table, res'.id)]_vars

\* Find by the id of a row that was created and deleted: not found
C15_Witness ==
    /\ res.op = "Find" /\ IsNotFound(res.err)
    /\ res.id.kind # "nil" /\ res.id.n < nextID
    /\ recs[res.r] = res.arg

\* C16: whatever Create, Update and Delete calls were made, a Find by an id
\* returns nil only if a row with that id was inserted by a Create and no
\* Delete of that id has returned nil since, and in that case it does
\* return nil unless the driver fails the query; a Find that directly
\* follows a Delete of the same id that returned nil returns sql.ErrNoRows
\* (or the driver's error).
C16_FindSucceedsIffLive ==
    [][IsCrud("Find")
         => LET id     == res'.id
                isLive == id.kind # "nil" /\ id.n \in live
            IN  /\ res'.err = NoError => isLive
                /\ isLive => (res'.err = NoError \/ IsDriverError(res'.err))
                /\ (res.op = "Delete" /\ res.err = NoError /\ res.id.n = id.n)
                      => (IsNotFound(res'.err) \/ IsDriverError(res'.err))]_vars

\* two rows were created and one of them deleted; Find by the id of the
\* other returned nil
C16_Witness ==
    /\ res.op = "Find" /\ res.err = NoError
    /\ res.id.n \in live
    /\ nextID = 3 /\ Cardinality(live) = 1

\* C17: an Update or a Delete of a record whose primary key no row has
\* leaves the table as it was and returns nil (or the error of the driver
\* when the statement itself failed): no row affected is not an error.
C17_MissingRowIsNoOp ==
    [][((IsCrud("Update") \/ IsCrud("Delete")) /\ ~RowExists(table, res'.id))
         => /\ table' = table
            /\ res'.err = NoError \/ IsDriverError(res'.err)]_vars

\* an Update of a record whose row was deleted returned nil, another row
\* being stored
C17_Witness ==
    /\ res.op = "Update" /\ res.err = NoError
    /\ res.id.kind # "nil" /\ ~RowExists(table, res.id)
    /\ table # {}

\* C18: when Create(e) has just returned nil, a Find(e2, e.ID) into
\* another, zero-valued record e2 returns nil (or the error of the driver),
\* and then e2 has e's ID, as the same Go value, and e's Name and Age, which
\* are the ones e was given before Create.
C18_CreateFindRoundTrip ==
    [][\A src \in Recs :
         (/\ res.op = "Create" /\ res.err = NoError /\ res.r = src
          /\ IsCrud("Find") /\ res'.r # src /\ res'.id = recs[src].ID
          /\ res'.arg = ZeroRecord)
            => /\ res'.err = NoError \/ IsDriverError(res'.err)
               /\ res'.err = NoError =>
                     LET e == recs'[src]  e2 == recs'[res'.r]
                     IN  /\ e2.ID = e.ID /\ e2.ID.kind # "nil"
                         /\ e2.Name = e.Name /\ e2.Name = res.arg.Name
                         /\ e2.Age = e.Age /\ e2.Age = res.arg.Age]_vars

\* a record named Ada was created and found again through a zero-valued
\* record
C18_Witness ==
    /\ res.op = "Find" /\ res.err = NoError /\ res.arg = ZeroRecord
    /\ recs[res.r].Name = "Ada" /\ recs[res.r].Age = 30
    /\ \E src \in Recs \ {res.r} : recs[src].ID = recs[res.r].ID
    /\ crudCalls = 3

\* C19: when Create(e) has just returned nil, a Find(e2, e.ID) into a
\* zero-valued record e2 that returns nil has selected every mapped column
\* and has given e2 the stored created_at and updated_at, which are e's and
\* are not the zero time.
C19_FindReturnsStoredTimestamps ==
    [][\A src \in Recs :
         (/\ res.op = "Create" /\ res.err = NoError /\ res.r = src
          /\ IsCrud("Find") /\ res'.r # src /\ res'.id = recs[src].ID
          /\ res'.arg = ZeroRecord /\ res'.err = NoError)
            => LET e == recs'[src]  e2 == recs'[res'.r]
               IN  /\ res'.fields = Columns
                   /\ e2.CreatedAt = e.CreatedAt /\ e2.CreatedAt # 0
                   /\ e2.UpdatedAt = e.UpdatedAt /\ e2.UpdatedAt # 0]_vars

\* C20: a Create that returns nil has inserted one row whose created_at is
\* the CreatedAt the record had when it was passed, if that was not the
\* zero time, and the current time otherwise; the same for updated_at.
C20_CreateKeepsGivenTimestamps ==
    [][(IsCrud("Create") /\ res'.err = NoError)
         => \E row \in table' \ table :
               /\ ParseTime(row.created_at) =
                     IF res'.arg.CreatedAt # 0 THEN res'.arg.CreatedAt ELSE now
               /\ ParseTime(row.updated_at) =
                     IF res'.arg.UpdatedAt # 0 THEN res'.arg.UpdatedAt ELSE now]_vars

RowOf(tbl, id) == CHOOSE row \in tbl : row.id = id.n

\* the field of the record that a column is decoded into is the zero value
ZeroField(rec, c) ==
    \/ c = "created_at" /\ rec.CreatedAt = 0
    \/ c = "updated_at" /\ rec.UpdatedAt = 0
    \/ c = "name" /\ rec.Name = ""
    \/ c = "age" /\ rec.Age = 0

\* C22: decoding a row in which a selected string, integer or time column
\* is NULL returns no error and leaves the field of that column at its zero
\* value (Find, the driver delivering the row).
C22_NullDecodesToZero ==
    [][(IsCrud("Find") /\ RowExists(table, res'.id) /\ ~IsDriverError(res'.err))
         => /\ res'.err = NoError
            /\ \A i \in DOMAIN res'.fields :
                  NullColumn(RowOf(table, res'.id), res'.fields[i])
                     => ZeroField(recs'[res'.r], res'.fields[i])]_vars

\* C23: when a selected time column holds text that is not empty and
\* parses in neither accepted form, the decoding call returns an error.
C23_UnparsableTimeIsError ==
    [][(/\ IsCrud("Find") /\ RowExists(table, res'.id)
        /\ \E i \in DOMAIN res'.fields :
              \/ /\ res'.fields[i] = "created_at"
                 /\ RowOf(table, res'.id).created_at.layout = "other"
              \/ /\ res'.fields[i] = "updated_at"
                 /\ RowOf(table, res'.id).updated_at.layout = "other")
         => res'.err # NoError]_vars

\* the error is that of the decoding of a row
IsScanError(err) == err # <<>> /\ err[Len(err)] = "convert"

\* C24: when the decoding of a row fails in FindAll or Where, the call
\* returns the error and the slice of the caller holds none of the records
\* decoded before that row.
C24_NoPartialResult ==
    [][((IsCrud("FindAll") \/ IsCrud("Where")) /\ IsScanError(res'.err))
         => models' = <<>>]_vars

\* =========================================================== SpecMigrate
\* MigratorStruct: Migrate and Rollback over the table schema_migrations.
\* A migration is known by its version; its Up and Down are the caller's
\* code and run on the connection of the package, outside the transaction
\* that runMigration opens for the record.

MaxMigCalls == 3      \* calls of Migrate / Rollback

Versions == {1, 2}

\* the lists of migrations the caller passes: one or two migrations
MigrationLists ==
    {<<a>> : a \in Versions} \cup {<<a, b>> : a \in Versions, b \in Versions}

\* how far a call gets: which statement fails, on which migration of the list
MigrateFailures ==
    {[at |-> 0, kind |-> k] : k \in {"none", "createErr", "appliedErr"}}
      \cup {[at |-> i, kind |-> k] :
               i \in 1..2, k \in {"beginErr", "upErr", "insertErr", "commitErr"}}

\* for _, record := range applied { if record.Version == version ... }
isMigrationApplied(applied, version) == version \in applied

\* runMigration: Begin, Up, INSERT INTO schema_migrations, Commit; the
\* deferred tx.Rollback undoes the INSERT but nothing that Up did.  The
\* INSERT fails as well when the version is recorded (primary key).
runMigration(version, sch, kind) ==
    IF kind = "beginErr"
    THEN [schema |-> sch, ups |-> <<>>, err |-> <<"driver">>]
    ELSE IF kind = "upErr"
    THEN [schema |-> sch, ups |-> <<[version |-> version, ok |-> FALSE]>>,
          err |-> <<"up">>]
    ELSE IF kind \in {"insertErr", "commitErr"} \/ version \in sch
    THEN [schema |-> sch, ups |-> <<[version |-> version, ok |-> TRUE]>>,
          err |-> <<"driver">>]
    ELSE [schema |-> sch \cup {version},
          ups |-> <<[version |-> version, ok |-> TRUE]>>, err |-> NoError]

\* for _, migration := range migrations { if !m.isMigrationApplied(applied,
\* migration.Version()) { if err := m.runMigration(migration) ... } }
\* applied is the list read before the loop
RECURSIVE MigrateFrom(_, _, _, _, _, _)
MigrateFrom(list, i, applied, sch, ups, fail) ==
    IF i > Len(list) THEN [schema |-> sch, ups |-> ups, err |-> NoError]
    ELSE IF isMigrationApplied(applied, list[i])
    THEN MigrateFrom(list, i + 1, applied, sch, ups, fail)
    ELSE LET out == runMigration(list[i], sch,
                                 IF fail.at = i THEN fail.kind ELSE "none")
         IN  IF out.err # NoError
             THEN [schema |-> out.schema, ups |-> ups \o out.ups,
                   err |-> Wrap("failed to run migration", out.err)]
             ELSE MigrateFrom(list, i + 1, applied, out.schema,
                              ups \o out.ups, fail)

MigBudget ==
    /\ migCalls < MaxMigCalls /\ migCalls' = migCalls + 1
    /\ UNCHANGED <<txVars, concVars, tlVars, crudVars, dbrVars>>

\* Migrate(migrations)
Migrate(list) ==
    /\ MigBudget
    /\ \E fail \in MigrateFailures :
         /\ fail.at <= Len(list)
         /\ LET out == IF fail.kind = "createErr"
                       THEN [schema |-> schema, ups |-> <<>>,
                             err |-> Wrap("failed to create migrations table",
                                          <<"driver">>)]
                       ELSE IF fail.kind = "appliedErr"
                       THEN [schema |-> schema, ups |-> <<>>,
                             err |-> Wrap("failed to get applied migrations",
                                          <<"driver">>)]
                       ELSE MigrateFrom(list, 1, schema, schema, <<>>, fail)
            IN  /\ schema' = out.schema
                /\ mig' = [op |-> "Migrate", list |-> list, err |-> out.err,
                           ups |-> out.ups, downs |-> <<>>]

RollbackFailures == {"none", "appliedErr", "downErr", "removeErr"}

\* lastMigration := applied[len(applied)-1], of SELECT ... ORDER BY version
LastApplied(sch) == CHOOSE v \in sch : \A w \in sch : w <= v

\* Rollback(migrations)
MigratorRollback(list) ==
    /\ MigBudget
    /\ \E fail \in RollbackFailures :
         LET version == LastApplied(schema)
             found   == \E i \in DOMAIN list : list[i] = version
             err     == IF fail = "appliedErr"
                        THEN Wrap("failed to get applied migrations", <<"driver">>)
                        ELSE IF schema = {}
                        THEN <<"no applied migrations to rollback">>
                        ELSE IF ~found THEN <<"migration not found">>
                        ELSE IF fail = "downErr"
                        THEN Wrap("failed to rollback migration", <<"down">>)
                        ELSE IF fail = "removeErr"
                        THEN Wrap("failed to remove migration record", <<"driver">>)
                        ELSE NoError
             called  == fail # "appliedErr" /\ schema # {} /\ found
         IN  /\ schema' = IF err = NoError THEN schema \ {version} ELSE schema
             /\ mig' = [op |-> "Rollback", list |-> list, err |-> err, ups |-> <<>>,
                        downs |-> IF called
                                  THEN <<[version |-> version,
                                          ok |-> fail # "downErr"]>>
                                  ELSE <<>>]

NextMigrate ==
    \/ \E list \in MigrationLists : Migrate(list)
    \/ \E list \in MigrationLists : MigratorRollback(list)

SpecMigrate == Init /\ [][NextMigrate]_vars

\* the step is a call of the migrator
IsMig(op) == migCalls' # migCalls /\ mig'.op = op

\* how often Up of this version was invoked in the calls
UpCount(ups, version) == Cardinality({i \in DOMAIN ups : ups[i].version = version})

\* C25: Migrate invokes Up for no version that schema_migrations records;
\* two calls of Migrate with the same list invoke the Up of each of its
\* migrations exactly once in all; and the Migrate after a successful
\* Rollback, the other versions of the list being recorded, invokes Up for
\* the version rolled back and for no other.
C25_MigrateInvokesUpOnce ==
    [][IsMig("Migrate")
         => /\ \A v \in schema : UpCount(mig'.ups, v) = 0
            /\ (mig.op = "Migrate" /\ mig.list = mig'.list)
                  => \A i \in DOMAIN mig.list :
                        UpCount(mig.ups \o mig'.ups, mig.list[i]) = 1
            /\ (/\ mig.op = "Rollback" /\ mig.err = NoError
                /\ \A i \in DOMAIN mig'.list :
                      mig'.list[i] \in schema \cup {mig.downs[1].version})
                  => \A v \in Versions \ {mig.downs[1].version} :
                        UpCount(mig'.ups, v) = 0]_vars

\* ============================================ claims on Spec, continued

\* the names of the savepoints that are live in the database, oldest first
DbNames(d) == [i \in DOMAIN d.sps |-> d.sps[i].name]

\* no name occurs twice
Distinct(q) == \A i \in DOMAIN q : \A j \in DOMAIN q : q[i] = q[j] => i = j

NamedSavepointOps == {"CreateSavepoint", "RollbackToSavepoint", "ReleaseSavepoint"}

\* C26: on the top-level Transaction, a CreateSavepoint, RollbackToSavepoint
\* or ReleaseSavepoint that returns nil keeps GetSavepoints() equal to the
\* savepoints live in the database, in order, the names being distinct and
\* no nested Transaction having been begun (so the two are equal after
\* every sequence of such calls).
C26_TrackedSavepointsAreLive ==
    [][(/\ IsCall(Root, NamedSavepointOps) /\ ~last'.err
        /\ \A c \in Tx \ {Root} : ~txs[c].alive
        /\ txs[Root].savepoints = DbNames(db)
        /\ Distinct(txs[Root].savepoints)
        /\ last'.op = "CreateSavepoint"
              => ~Found(txs[Root].savepoints, last'.events[1].name))
         => txs'[Root].savepoints = DbNames(db')]_vars

\* the parent of a nested Transaction has committed or rolled back
ParentTerminal(t) ==
    /\ txs[t].parentTx # Nil
    /\ txs[txs[t].parentTx].committed \/ txs[txs[t].parentTx].rolledBack

\* the flag that the call sets when it returns nil
Marked(tx, op) == IF op = "Commit" THEN tx.committed ELSE tx.rolledBack

\* C27 as stated: Commit() / Rollback() on an Active nested Transaction
\* whose parent is committed or rolled back returns nil, sets the flag of
\* the child and executes no statement.
C27_ChildAfterParentIsNoOp ==
    [][\A t \in Tx :
         (IsCall(t, {"Commit", "Rollback"}) /\ Active(t) /\ ParentTerminal(t))
            => /\ ~last'.err /\ last'.events = <<>>
               /\ Marked(txs'[t], last'.op) /\ db' = db]_vars

\* C27, amended: the call looks at the flags of the child only, never at
\* those of the parent.  With no savepoint tracked by the child it returns
\* nil, sets the flag of the child and executes no statement.  With a
\* savepoint tracked by the child it executes one statement on the latest
\* of them; on a finished physical transaction that statement fails, the
\* call returns the error and the child stays Active.
C27_ChildLooksAtOwnStateOnly ==
    [][\A t \in Tx :
         (IsCall(t, {"Commit", "Rollback"}) /\ Active(t) /\ ParentTerminal(t))
            => IF txs[t].savepoints = <<>>
               THEN /\ ~last'.err /\ last'.events = <<>>
                    /\ Marked(txs'[t], last'.op) /\ db' = db
               ELSE /\ Len(last'.events) = 1
                    /\ last'.events[1].kind =
                          (IF last'.op = "Commit" THEN "RELEASE" ELSE "ROLLBACK TO")
                    /\ last'.events[1].name = TopSavepoint(t)[1]
                    /\ last'.err = ~last'.events[1].ok
                    /\ Marked(txs'[t], last'.op) = ~last'.err
                    /\ db.status # "open" => last'.err /\ Active(t)']_vars

\* the top-level Transaction rolled back, then Rollback() on its Active
\* child returned nil without a statement and marked the child
C27_Witness ==
    /\ last.op = "Rollback" /\ ~last.err /\ last.events = <<>>
    /\ txs[last.t].parentTx = Root /\ txs[last.t].rolledBack
    /\ txs[Root].rolledBack /\ db.status = "rolledback"
    /\ "Rollback" \in nilCalls[Root]

\* the callbacks registered on nested Transactions
NestedCallbacks ==
    UNION {{txs[t].callbacks[i] : i \in DOMAIN txs[t].callbacks} :
             t \in {c \in Tx : txs[c].alive /\ txs[c].parentTx # Nil}}

C29_CallbacksRunAgain ==
    [][(/\ last.op = "Commit" /\ last.t = Root /\ CallbackFailed(last)
        /\ IsCall(Root, {"Commit"}))
         => /\ Active(Root)
            /\ last'.events # <<>>
            /\ \A i \in DOMAIN last'.events :
                  i <= Len(txs[Root].callbacks)
                     => /\ last'.events[i].kind = "callback"
                        /\ last'.events[i].id = txs[Root].callbacks[i]
                        /\ i < Len(last.events) => cbRuns'[txs[Root].callbacks[i]] >= 2
            /\ "COMMIT" \in Kinds(last'.events)
                  => \A i \in 1..(Len(last.events) - 1) :
                        cbRuns'[txs[Root].callbacks[i]] >= 2]_vars

\* the first callback ran twice: a Commit() failed in the second callback,
\* the next Commit() ran both and committed
C29_Witness ==
    /\ last.op = "Commit" /\ last.t = Root /\ ~last.err /\ db.status = "committed"
    /\ Len(txs[Root].callbacks) = 2
    /\ cbRuns[txs[Root].callbacks[1]] = 2 /\ cbRuns[txs[Root].callbacks[2]] = 2

\* ========================================================== SpecResolver
\* DatabaseResolver.GetConnection called by NumThreads goroutines at once.
\* A replica is known by its index in dr.readReplicas / dr.writeReplicas.
\* GetConnection holds dr.mu.RLock(), which any number of goroutines hold
\* together, so dr.roundRobin++ is an unsynchronised read and write: the
\* model takes the read of line 161 / 173, the read of the increment and
\* its write as three steps that other goroutines may come between.

MaxReplicas == 2      \* replicas of each kind that are configured
MaxGetCalls == 3      \* calls of GetConnection

DatabaseTypes == {"ReadReplica", "WriteReplica"}

ResolverBudget == UNCHANGED <<txVars, concVars, tlVars, crudVars, migVars>>

\* no goroutine is inside GetConnection (dr.mu.Lock() can be taken)
NoReader == \A g \in Threads : gor[g].pc = "idle"

\* AddReadReplica / AddWriteReplica: append under dr.mu.Lock(); the
\* resolver is configured before it is used
AddReplica(dbType) ==
    /\ ResolverBudget
    /\ NoReader /\ dbrCalls = 0
    /\ replicas[dbType] < MaxReplicas
    /\ replicas' = [replicas EXCEPT ![dbType] = @ + 1]
    /\ UNCHANGED <<roundRobin, gor, picks, dbrCalls>>

AddReadReplica == AddReplica("ReadReplica")

AddWriteReplica == AddReplica("WriteReplica")

\* GetReadConnection() / GetWriteConnection(): dr.mu.RLock(), which does
\* not wait as no goroutine holds dr.mu.Lock() any more, then
\* if len(replicas) == 0 { return dr.primary.GetDB() }
\* conn := replicas[dr.roundRobin%len(replicas)]
GetConnection(g, dbType) ==
    /\ ResolverBudget
    /\ gor[g].pc = "idle"
    /\ dbrCalls < MaxGetCalls /\ dbrCalls' = dbrCalls + 1
    /\ LET n == replicas[dbType]
       IN  IF n = 0
           THEN /\ picks' = Append(picks, [dbType |-> dbType, primary |-> TRUE,
                                           conn |-> 0])
                /\ gor' = gor
           ELSE /\ picks' = Append(picks, [dbType |-> dbType, primary |-> FALSE,
                                           conn |-> roundRobin % n])
                /\ gor' = [gor EXCEPT ![g] = [pc |-> "load", dbType |-> dbType,
                                              tmp |-> 0]]
    /\ UNCHANGED <<replicas, roundRobin>>

\* dr.roundRobin++ : the read
LoadRoundRobin(g) ==
    /\ ResolverBudget
    /\ gor[g].pc = "load"
    /\ gor' = [gor EXCEPT ![g].pc = "store", ![g].tmp = roundRobin]
    /\ UNCHANGED <<replicas, roundRobin, picks, dbrCalls>>

\* dr.roundRobin++ : the write; return conn.GetDB(), nil and the deferred
\* dr.mu.RUnlock()
StoreRoundRobin(g) ==
    /\ ResolverBudget
    /\ gor[g].pc = "store"
    /\ roundRobin' = gor[g].tmp + 1
    /\ gor' = [gor EXCEPT ![g] = [pc |-> "idle", dbType |-> "", tmp |-> 0]]
    /\ UNCHANGED <<replicas, picks, dbrCalls>>

NextResolver ==
    \/ AddReadReplica
    \/ AddWriteReplica
    \/ \E g \in Threads, dbType \in DatabaseTypes : GetConnection(g, dbType)
    \/ \E g \in Threads : LoadRoundRobin(g)
    \/ \E g \in Threads : StoreRoundRobin(g)

SpecResolver == Init /\ [][NextResolver]_vars

\* the read replicas that the calls of GetReadConnection were given, in
\* the order in which the calls selected them
ReadPicks ==
    LET reads == SelectSeq(picks, LAMBDA p : p.dbType = "ReadReplica" /\ ~p.primary)
    IN  [i \in DOMAIN reads |-> reads[i].conn]

\* the selections that incremented the counter
Increments == Cardinality({i \in DOMAIN picks : ~picks[i].primary})

\* C30: with n read replicas, any n consecutive calls of GetReadConnection
\* are given each replica exactly once, whatever calls of
\* GetWriteConnection and whatever other goroutines come between; and the
\* counter loses no increment: when no call is in progress it equals the
\* number of selections made.
C30_RoundRobinIsFair ==
    LET n == replicas.ReadReplica
    IN  /\ \A i \in 1..(Len(ReadPicks) - n + 1) :
              {ReadPicks[j] : j \in i..(i + n - 1)} = 0..(n - 1)
        /\ NoReader => roundRobin = Increments

====
